---- MODULE Spec2Model ----
(***************************************************************************)
(* Model of calculate_seqera_io_usage.py: the HTTP client wrapper, the     *)
(* offset-paginated workflow search (APIClient.workflows), the metrics     *)
(* extractor (extract_io_metrics), the workspace processor                 *)
(* (process_workspace) and the driver (main).                              *)
(*                                                                         *)
(* The remote API is the environment: every response is chosen with \E     *)
(* from a small set when the request is made.                              *)
(***************************************************************************)
EXTENDS Integers, Sequences, FiniteSets, TLC

(* ---------------------------- bounds ----------------------------------- *)
\* items a workspace holds on the server, in the walker specification
MaxN == 4
\* server page size, at most
MaxK == 3
\* totalSize the server reports, at most
MaxT == 5
\* entries of a metrics list, in the extractor specification
MaxMetrics == 2
\* largest mean value of a metric
MaxMean == 1
\* organizations the server lists, at most
MaxOrgs == 2
\* workspace entries the server lists over all organizations, at most
MaxWs == 2
\* workflows the server holds over all workspaces, in the driver specification
MaxItems == 2
\* requests of one run, at most
MaxCalls == 9

Min(a, b) == IF a < b THEN a ELSE b
Max(a, b) == IF a > b THEN a ELSE b

(* ---------------------------- JSON values ------------------------------ *)
\* A key of a JSON object is absent, present with null, or present with a
\* value. dict.get(key, default) yields the default only when it is absent.
\* Python's None: the identifier that no workflow has.
None == << >>

\* "mean" of a reads/writes object.
NumAbsent == [k |-> "absent", v |-> 0]
NumNull == [k |-> "null", v |-> 0]
Num(n) == [k |-> "num", v |-> n]
MeanVals == {NumAbsent, NumNull} \cup {Num(n) : n \in 0..MaxMean}

\* "reads" / "writes" of a process-metric entry.
SubAbsent == [k |-> "absent", mean |-> NumAbsent]
SubNull == [k |-> "null", mean |-> NumAbsent]
SubObj(m) == [k |-> "obj", mean |-> m]
SubVals == {SubAbsent, SubNull} \cup {SubObj(m) : m \in MeanVals}

\* A name of the detail response ("orgName", "workspaceName").
StrAbsent == [k |-> "absent", v |-> ""]
Str(s) == [k |-> "str", v |-> s]

\* A process-metric entry; the process name is held fixed per entry kind.
Entry(r, w) == [process |-> "p", reads |-> r, writes |-> w]
Entries == {Entry(r, w) : r \in SubVals, w \in SubVals}

\* The metrics response: its "metrics" key (absent, null or a list).
MetricsAbsent == [k |-> "absent", list |-> << >>]
MetricsNull == [k |-> "null", list |-> << >>]
MetricsList(l) == [k |-> "list", list |-> l]

\* The detail response: its "workflow" key (absent, null or an object with
\* an "id", None when the object has none) and the two embedded names.
\* runName, status, userName, start and complete are copied like id
\* (lines 111-115) and are left out.
Details(wk, id, org, ws) ==
    [wfk |-> wk, id |-> id, orgName |-> org, workspaceName |-> ws]

(* ---------------------------- extract_io_metrics ----------------------- *)
\* reads_data.get("mean", 0) behind the None test (lines 132-140): a number,
\* or Python's None when "mean" is present with null.
MeanOf(sub) ==
    IF sub.k = "obj"
      THEN (IF sub.mean.k = "absent" THEN Num(0) ELSE sub.mean)
      ELSE Num(0)

\* dict.get(key, default) for a name (lines 118-119).
NameOrFallbackIgnored(field, fallback) == fallback
NameOrFallback(field, fallback) ==
    IF field.k = "absent" THEN fallback ELSE field.v

\* workflow_data.get("id") (lines 109-110).
WorkflowIdOf(details) == IF details.wfk = "obj" THEN details.id ELSE None

\* The process record appended for one entry (lines 145-153).
ProcessRecordReadOnly(wid, e, r, w) ==
    [workflow_id |-> wid, process_name |-> e.process,
     read_bytes |-> r, write_bytes |-> w, total_bytes |-> r]
ProcessRecordNoId(wid, e, r, w) ==
    [workflow_id |-> None, process_name |-> e.process,
     read_bytes |-> r, write_bytes |-> w, total_bytes |-> r + w]
ProcessRecord(wid, e, r, w) ==
    [workflow_id |-> wid, process_name |-> e.process,
     read_bytes |-> r, write_bytes |-> w, total_bytes |-> r + w]

\* The for loop (lines 129-153) over entries i..Len(list), from the running
\* totals tr, tw and the records acc. "total_read_bytes += None" raises.
RECURSIVE SumLoop(_, _, _, _, _, _)
SumLoop(wid, list, i, tr, tw, acc) ==
    IF i > Len(list)
      THEN [err |-> FALSE, tr |-> tr, tw |-> tw, process |-> acc]
      ELSE LET r == MeanOf(list[i].reads)
               w == MeanOf(list[i].writes)
           IN IF r.k # "num" \/ w.k # "num"
                THEN [err |-> TRUE, tr |-> 0, tw |-> 0, process |-> << >>]
                ELSE SumLoop(wid, list, i + 1, tr + r.v, tw + w.v,
                             Append(acc, ProcessRecord(wid, list[i], r.v, w.v)))

\* What a failed call leaves: no value.
Raised == [err |-> TRUE,
           summary |-> [workflow_id |-> None, total_read_bytes |-> 0,
                        total_write_bytes |-> 0, total_io_bytes |-> 0,
                        organization_name |-> "", workspace_name |-> ""],
           process |-> << >>]

\* extract_io_metrics (lines 102-171). err: the call raised.
ExtractIoMetrics(details, metrics, org_name, workspace_name) ==
    IF details.wfk = "null" \/ metrics.k = "null"
      THEN Raised
      ELSE LET wid == WorkflowIdOf(details)
               loop == SumLoop(wid, metrics.list, 1, 0, 0, << >>)
           IN IF loop.err
                THEN Raised
                ELSE [err |-> FALSE,
                      summary |->
                        [workflow_id |-> wid,
                         total_read_bytes |-> loop.tr,
                         total_write_bytes |-> loop.tw,
                         total_io_bytes |-> loop.tr + loop.tw,
                         organization_name |->
                             NameOrFallback(details.orgName, org_name),
                         workspace_name |->
                             NameOrFallback(details.workspaceName, workspace_name)],
                      process |-> loop.process]


(* ---------------------------- HTTP client ------------------------------ *)
\* How one requests.get ends, as APIClient.get sees it: an exception of the
\* requests library ("error", logged, {} returned), a 2xx answer whose JSON
\* body is the empty object ("empty" as it is), or a 2xx answer
\* with a non-empty body ("data").
Outcomes == {"error", "empty", "data"}

\* APIClient.get returns a falsy dict exactly for "error" and "empty".
IsEmptyResp(outcome) == outcome # "data"

\* The records APIClient.get writes to the log for one request.
GetLog(ep, outcome) ==
    << [level |-> "INFO", msg |-> "GET", ref |-> ep] >> \o
    ( IF outcome = "error"
        THEN << [level |-> "ERROR", msg |-> "request failed", ref |-> ep] >>
        ELSE << [level |-> "INFO", msg |-> "Response", ref |-> ep] >> )

VARIABLES
    \* --- the server: the workspace entries and the workflows it has not
    \* handed out yet
    wsLeft, itemsLeft,
    \* --- the server's side of one workflow search
    srvN,        \* items the server holds for the searched workspace
    srvK,        \* the server's page size
    srvT,        \* the totalSize the server reports (0 also when absent)
    \* --- APIClient.workflows
    wpc,         \* "idle", "loop" (at the head of while True), "done"
    workflows,   \* the accumulator: positions of items, in order received
    offset,      \* the offset the next request sends
    pages,       \* history: one record per request of the current walk
    \* --- process_workspace
    workspace_id, org_name, workspace_name,   \* its arguments
    pw_summaries, pw_process,   \* its all_workflow_summaries, all_process_metrics
    fi,                         \* position of the for loop over workflows
    workflow_details, workflow_metrics_data,  \* the last two responses
    fetched,                    \* how the last two requests ended
    extracted,                  \* what the last extract_io_metrics call gave
    \* --- main
    pc,
    mode,        \* "single" (--workspace-id given) or "all"
    orgs, oi,    \* the organizations listed and the position in them
    workspaces, wi,             \* the workspaces of orgs[oi], the position
    all_workflow_summaries, all_process_metrics,
    writes,      \* the files written, in order
    echoed,      \* the messages printed by main's last lines
    listed,      \* history: the workspace entries the lookup went through
    searched,    \* history: the workspace of every process_workspace call
    \* --- the records the last step appended to the log (the log itself
    \* only grows and is never read), and the requests made so far
    logged, ncalls

walkVars == << srvN, srvK, srvT, wpc, workflows, offset, pages >>
pwVars == << workspace_id, org_name, workspace_name, pw_summaries, pw_process,
             fi, workflow_details, workflow_metrics_data, fetched, extracted >>
mainVars == << pc, mode, orgs, oi, workspaces, wi, all_workflow_summaries,
               all_process_metrics, writes, echoed, listed, searched >>
srvVars == << wsLeft, itemsLeft >>
vars == << srvVars, walkVars, pwVars, mainVars, logged, ncalls >>

(* ---------------------------- APIClient.workflows ---------------------- *)
\* Items the server answers with at offset o when it sends c of them.
PageItems(o, c) == [i \in 1..c |-> o + i - 1]

\* Offset of the next request (line 87).
NextOffsetSkewed(off, n) == off + 1
NextOffset(off, n) == off + n

\* The loop's exit test after a page was appended (line 84).
StopNoGuard(len, total, n) == len >= total
StopAfterPage(len, total, n) == len >= total \/ n = 0

\* Where an empty response leaves the loop (lines 78-79: break).
OnEmptyRespRetry == "loop"
OnEmptyResp == "done"

\* The state of APIClient.workflows before its loop (lines 61-62), against
\* a server holding n items, paging by k and reporting t.
EnterWorkflows(n, k, t) ==
    /\ srvN' = n /\ srvK' = k /\ srvT' = t
    /\ wpc' = "loop"
    /\ workflows' = << >>
    /\ offset' = 0
    /\ pages' = << >>

\* One iteration of the while loop of APIClient.workflows (lines 71-87).
WorkflowsPage ==
    /\ wpc = "loop"
    /\ ncalls < MaxCalls
    /\ \E outcome \in Outcomes :
       \E c \in 0..Min(srvK, Max(0, srvN - offset)) :
          /\ (outcome # "data") => (c = 0)
          /\ pages' = Append(pages, [offset |-> offset, kind |-> outcome, n |-> c,
                                      before |-> Len(workflows)])
          /\ logged' = GetLog("workflow", outcome)
          /\ IF IsEmptyResp(outcome)
               THEN /\ wpc' = OnEmptyResp
                    /\ UNCHANGED << workflows, offset >>
               ELSE /\ workflows' = workflows \o PageItems(offset, c)
                    /\ IF StopAfterPage(Len(workflows) + c, srvT, c)
                         THEN /\ wpc' = "done"
                              /\ UNCHANGED offset
                         ELSE /\ wpc' = "loop"
                              /\ offset' = NextOffset(offset, c)
    /\ ncalls' = ncalls + 1
    /\ UNCHANGED << srvVars, srvN, srvK, srvT, pwVars, mainVars >>

(* ---------------------------- specifications --------------------------- *)
EmptyDetails == Details("absent", None, StrAbsent, StrAbsent)

\* Values of the variables a specification does not use.
IdleWalk ==
    /\ wsLeft = 0 /\ itemsLeft = 0
    /\ srvN = 0 /\ srvK = 1 /\ srvT = 0
    /\ wpc = "idle" /\ workflows = << >> /\ offset = 0 /\ pages = << >>
IdleProcessWorkspace ==
    /\ workspace_id = None /\ org_name = "Unknown" /\ workspace_name = "Unknown"
    /\ pw_summaries = << >> /\ pw_process = << >> /\ fi = 1
    /\ workflow_details = EmptyDetails
    /\ workflow_metrics_data = MetricsAbsent
    /\ fetched = << "error", "error" >>
    /\ extracted = Raised
IdleMain ==
    /\ orgs = << >> /\ oi = 1 /\ workspaces = << >> /\ wi = 1
    /\ all_workflow_summaries = << >> /\ all_process_metrics = << >>
    /\ writes = << >> /\ echoed = << >>
    /\ listed = << >> /\ searched = << >>

\* APIClient.workflows alone, against every server within the bounds.
InitWalk ==
    /\ wsLeft = 0 /\ itemsLeft = 0
    /\ srvN \in 0..MaxN /\ srvK \in 1..MaxK /\ srvT \in 0..MaxT
    /\ wpc = "loop" /\ workflows = << >> /\ offset = 0 /\ pages = << >>
    /\ IdleProcessWorkspace
    /\ IdleMain /\ pc = "walk" /\ mode = "all"
    /\ logged = << >> /\ ncalls = 0
NextWalk == WorkflowsPage
SpecWalk == InitWalk /\ [][NextWalk]_vars

\* extract_io_metrics alone, on every pair of responses within the bounds.
DetailInputs ==
    { EmptyDetails,
      Details("null", None, StrAbsent, StrAbsent),
      Details("obj", None, StrAbsent, Str("wsE")),
      Details("obj", << 1, 1, 0 >>, Str("orgE"), Str("wsE")) }
MetricInputs ==
    { MetricsAbsent, MetricsNull } \cup
    { MetricsList(l) : l \in UNION { [1..n -> Entries] : n \in 0..MaxMetrics } }

InitExtract ==
    /\ IdleWalk
    /\ workspace_id = None /\ org_name = "Unknown" /\ workspace_name = "Unknown"
    /\ pw_summaries = << >> /\ pw_process = << >> /\ fi = 1
    /\ workflow_details \in DetailInputs
    /\ workflow_metrics_data \in MetricInputs
    /\ fetched = << "data", "data" >>
    /\ extracted = Raised
    /\ IdleMain /\ pc = "extract" /\ mode = "all"
    /\ logged = << >> /\ ncalls = 0

CallExtract ==
    /\ pc = "extract"
    /\ extracted' = ExtractIoMetrics(workflow_details, workflow_metrics_data,
                                     org_name, workspace_name)
    /\ pc' = "extracted"
    /\ UNCHANGED << srvVars, walkVars, workspace_id, org_name, workspace_name,
                    pw_summaries, pw_process, fi, workflow_details,
                    workflow_metrics_data, fetched, mode, orgs, oi, workspaces,
                    wi, all_workflow_summaries, all_process_metrics, writes,
                    echoed, listed, searched, logged, ncalls >>
NextExtract == CallExtract
SpecExtract == InitExtract /\ [][NextExtract]_vars

(* ---------------------------- process_workspace ------------------------ *)
\* The id of the search result at position p of workspace ws.
WorkflowId(ws, p) == ws \o << p >>

\* The bodies a non-empty detail response of workflow wid may have.
DetailBodies(wid) ==
    { Details("obj", wid, Str("orgE"), Str("wsE")),
      Details("obj", wid, StrAbsent, StrAbsent) }

\* The bodies a non-empty metrics response may have: no entries, one entry
\* with reads and a null writes object, one entry whose reads.mean is null.
MetricBodies ==
    { MetricsList(<< >>),
      MetricsList(<< Entry(SubObj(Num(1)), SubNull) >>),
      MetricsList(<< Entry(SubObj(NumNull), SubAbsent) >>) }

\* The test of line 222: both responses are truthy.
OnlyDetailsNonEmpty(d, m) == d # EmptyDetails
BothNonEmpty(d, m) == d # EmptyDetails /\ m # MetricsAbsent

\* list.extend of the accumulators (lines 226-227, 388-389, 418-419).
ExtendFront(all, new) == new \o all
Extend(all, new) == all \o new

\* process_workspace up to its call of client.workflows (lines 206-209):
\* the search starts against some server within the bounds.
CallProcessWorkspace ==
    /\ pc = "call"
    /\ pw_summaries' = << >>
    /\ pw_process' = << >>
    /\ fi' = 1
    /\ \E n \in 0..itemsLeft : \E t \in {n, n + 1} :
          /\ EnterWorkflows(n, MaxItems, t)
          /\ itemsLeft' = itemsLeft - n
    /\ wsLeft' = wsLeft
    /\ searched' = Append(searched, workspace_id)
    /\ pc' = "search"
    /\ UNCHANGED << workspace_id, org_name, workspace_name, workflow_details,
                    workflow_metrics_data, fetched, extracted, mode, orgs, oi,
                    workspaces, wi, all_workflow_summaries, all_process_metrics,
                    writes, echoed, listed, ncalls >>
    /\ logged' = << >>

\* client.workflows returned (lines 209-210); its locals are gone.
SearchDone ==
    /\ pc = "search" /\ wpc = "done"
    /\ wpc' = "idle"
    /\ srvN' = 0 /\ srvK' = 1 /\ srvT' = 0 /\ offset' = 0 /\ pages' = << >>
    /\ logged' = << [level |-> "INFO", msg |-> "Found workflows",
                         ref |-> "workspace"] >>
    /\ pc' = "wfloop"
    /\ UNCHANGED << srvVars, workflows, pwVars, mode, orgs, oi, workspaces, wi,
                    all_workflow_summaries, all_process_metrics, writes, echoed,
                    listed, searched, ncalls >>

\* One iteration of the for loop over the workflows (lines 212-228): the two
\* requests, the test, the extraction and the two appends.
ProcessWorkflow ==
    /\ pc = "wfloop" /\ fi <= Len(workflows)
    /\ ncalls + 2 <= MaxCalls
    /\ LET wid == WorkflowId(workspace_id, workflows[fi]) IN
       \E dout \in Outcomes, mout \in Outcomes :
       \E d \in (IF dout = "data" THEN DetailBodies(wid) ELSE {EmptyDetails}) :
       \E m \in (IF mout = "data" THEN MetricBodies ELSE {MetricsAbsent}) :
          LET ex == ExtractIoMetrics(d, m, org_name, workspace_name)
              got == GetLog("details", dout) \o GetLog("metrics", mout)
          IN /\ workflow_details' = d
             /\ workflow_metrics_data' = m
             /\ fetched' = << dout, mout >>
             /\ ncalls' = ncalls + 2
             /\ IF BothNonEmpty(d, m)
                  THEN /\ extracted' = ex
                       /\ IF ex.err
                            THEN /\ pc' = "crashed"
                                 /\ logged' = got
                                 /\ UNCHANGED << pw_summaries, pw_process, fi >>
                            ELSE /\ pw_summaries' =
                                       Extend(pw_summaries, << ex.summary >>)
                                 /\ pw_process' = Extend(pw_process, ex.process)
                                 /\ logged' = got \o
                                       << [level |-> "INFO", msg |-> "Collected",
                                           ref |-> "workflow"] >>
                                 /\ fi' = fi + 1
                                 /\ pc' = "wfloop"
                  ELSE /\ logged' = got
                       /\ fi' = fi + 1
                       /\ pc' = "wfloop"
                       /\ UNCHANGED << pw_summaries, pw_process, extracted >>
    /\ UNCHANGED << srvVars, walkVars, workspace_id, org_name, workspace_name,
                    mode, orgs, oi, workspaces, wi, all_workflow_summaries,
                    all_process_metrics, writes, echoed, listed, searched >>

\* process_workspace returns and main extends its two lists (line 230 with
\* lines 388-389 or 418-419); the locals of process_workspace are gone.
ReturnWorkspace ==
    /\ pc = "wfloop" /\ fi > Len(workflows)
    /\ all_workflow_summaries' = Extend(all_workflow_summaries, pw_summaries)
    /\ all_process_metrics' = Extend(all_process_metrics, pw_process)
    /\ workflows' = << >>
    /\ pw_summaries' = << >> /\ pw_process' = << >> /\ fi' = 1
    /\ workflow_details' = EmptyDetails
    /\ workflow_metrics_data' = MetricsAbsent
    /\ fetched' = << "error", "error" >>
    /\ extracted' = Raised
    /\ IF mode = "single"
         THEN pc' = "output" /\ wi' = wi
         ELSE pc' = "wsloop" /\ wi' = wi + 1
    /\ UNCHANGED << srvVars, srvN, srvK, srvT, wpc, offset, pages, workspace_id,
                    org_name, workspace_name, mode, orgs, oi, workspaces,
                    writes, echoed, listed, searched, ncalls >>
    /\ logged' = << >>

(* ---------------------------- main ------------------------------------- *)
OrgName(i) == IF i = 1 THEN "org1" ELSE IF i = 2 THEN "org2" ELSE "org3"
WsName(j) == IF j = 1 THEN "ws1" ELSE IF j = 2 THEN "ws2" ELSE "ws3"

\* The "organizations" list of a response that lists n organizations.
OrgList(n) == [i \in 1..n |-> [orgId |-> i, name |-> OrgName(i)]]

\* The "workspaces" list of organization o: has[j] tells whether entry j
\* carries an id.
WsList(o, has) ==
    [j \in DOMAIN has |->
        [id |-> IF has[j] THEN << o, j >> ELSE None, name |-> WsName(j)]]
WsLists(o, room) ==
    { WsList(o, has) : has \in UNION { [1..n -> BOOLEAN] : n \in 0..room } }

\* The --workspace-id values tried: two that a listing may hold and one
\* that no listing holds.
Targets == { << 1, 1 >>, << 1, 2 >>, << 0, 0 >> }

\* client.organizations() (lines 365-366 and 392-393).
Organizations ==
    /\ pc = "start"
    /\ ncalls < MaxCalls
    /\ \E outcome \in Outcomes :
       \E n \in (IF outcome = "data" THEN 0..MaxOrgs ELSE {0}) :
          /\ orgs' = OrgList(n)
          /\ logged' = GetLog("orgs", outcome)
    /\ ncalls' = ncalls + 1
    /\ oi' = 1
    /\ pc' = IF mode = "single" THEN "lookup" ELSE "orgloop"
    /\ UNCHANGED << srvVars, walkVars, pwVars, mode, workspaces, wi,
                    all_workflow_summaries, all_process_metrics, writes, echoed,
                    listed, searched >>

\* The first entry of ws whose id is the one looked for, 0 when none is.
FirstMatch(ws, id) ==
    IF \E j \in DOMAIN ws : ws[j].id = id
      THEN CHOOSE j \in DOMAIN ws :
              /\ ws[j].id = id
              /\ \A h \in 1..(j - 1) : ws[h].id # id
      ELSE 0

\* Single-workspace mode: one iteration of the loop over the organizations
\* (lines 367-376).
LookupOrg ==
    /\ pc = "lookup" /\ oi <= Len(orgs)
    /\ ncalls < MaxCalls
    /\ \E outcome \in Outcomes :
       \E ws \in (IF outcome = "data" THEN WsLists(orgs[oi].orgId, wsLeft)
                                      ELSE {<< >>}) :
          LET j == FirstMatch(ws, workspace_id) IN
          /\ workspaces' = ws
          /\ wsLeft' = wsLeft - Len(ws)
          /\ listed' = listed \o ws
          /\ logged' = GetLog("workspaces", outcome)
          /\ IF j # 0
               THEN /\ org_name' = orgs[oi].name
                    /\ workspace_name' = ws[j].name
                    /\ pc' = "call"
                    /\ oi' = oi
               ELSE /\ UNCHANGED << org_name, workspace_name >>
                    /\ oi' = oi + 1
                    /\ pc' = "lookup"
    /\ ncalls' = ncalls + 1
    /\ UNCHANGED << itemsLeft, walkVars, workspace_id, pw_summaries, pw_process,
                    fi, workflow_details, workflow_metrics_data, fetched, extracted,
                    mode, orgs, wi, all_workflow_summaries, all_process_metrics,
                    writes, echoed, searched >>

\* Single-workspace mode: the loop over the organizations is exhausted.
LookupEnd ==
    /\ pc = "lookup" /\ oi > Len(orgs)
    /\ pc' = "call"
    /\ UNCHANGED << srvVars, walkVars, pwVars, mode, orgs, oi, workspaces, wi,
                    all_workflow_summaries, all_process_metrics, writes, echoed,
                    listed, searched, ncalls >>
    /\ logged' = << >>

\* All-workspaces mode: the head of the loop over the organizations
\* (lines 394-397), or its end.
AllOrg ==
    /\ pc = "orgloop"
    /\ IF oi <= Len(orgs)
         THEN /\ ncalls < MaxCalls
              /\ \E outcome \in Outcomes :
                 \E ws \in (IF outcome = "data"
                              THEN WsLists(orgs[oi].orgId, wsLeft)
                              ELSE {<< >>}) :
                    /\ workspaces' = ws
                    /\ wsLeft' = wsLeft - Len(ws)
                    /\ logged' = GetLog("workspaces", outcome)
              /\ ncalls' = ncalls + 1
              /\ wi' = 1
              /\ pc' = "wsloop"
         ELSE /\ pc' = "output"
              /\ logged' = << >>
              /\ UNCHANGED << workspaces, ncalls, wi, wsLeft >>
    /\ UNCHANGED << itemsLeft, walkVars, pwVars, mode, orgs, oi, all_workflow_summaries,
                    all_process_metrics, writes, echoed, listed, searched >>

\* What the loop does with a workspace that has no id (lines 402-406).
StopAtMissingId == "output"
OnMissingId == "wsloop"

\* All-workspaces mode: the head of the loop over the workspaces
\* (lines 398-406), or its end.
AllWorkspace ==
    /\ pc = "wsloop"
    /\ IF wi > Len(workspaces)
         THEN /\ oi' = oi + 1
              /\ pc' = "orgloop"
              /\ logged' = << >>
              /\ UNCHANGED << wi, workspace_id, org_name, workspace_name >>
         ELSE IF workspaces[wi].id = None
           THEN /\ logged' = << [level |-> "WARNING", msg |-> "no ID, skipping",
                                     ref |-> "workspace"] >>
                /\ wi' = wi + 1
                /\ pc' = OnMissingId
                /\ UNCHANGED << oi, workspace_id, org_name, workspace_name >>
           ELSE /\ workspace_id' = workspaces[wi].id
                /\ org_name' = orgs[oi].name
                /\ workspace_name' = workspaces[wi].name
                /\ pc' = "call"
                /\ logged' = << >>
                /\ UNCHANGED << oi, wi >>
    /\ UNCHANGED << srvVars, walkVars, pw_summaries, pw_process, fi,
                    workflow_details, workflow_metrics_data, fetched, extracted,
                    mode, orgs,
                    workspaces, all_workflow_summaries, all_process_metrics,
                    writes, echoed, listed, searched, ncalls >>

\* The test of line 421.
WriteAlways(summaries) == TRUE
HasData(summaries) == summaries # << >>

\* The end of main (lines 421-438).
Output ==
    /\ pc = "output"
    /\ IF HasData(all_workflow_summaries)
         THEN /\ writes' = writes \o << "summary" >> \o
                     (IF all_process_metrics # << >> THEN << "process" >>
                                                      ELSE << >>)
              /\ logged' = << [level |-> "INFO", msg |-> "saved", ref |-> "summary"] >> \o
                     (IF all_process_metrics # << >>
                        THEN << [level |-> "INFO", msg |-> "saved",
                                 ref |-> "process"] >>
                        ELSE << >>)
              /\ echoed' = Append(echoed, "IO Metrics Summary")
         ELSE /\ writes' = writes
              /\ logged' = << [level |-> "WARNING",
                                   msg |-> "No workflow data collected",
                                   ref |-> "run"] >>
              /\ echoed' = Append(echoed, "No workflow data collected")
    /\ pc' = "done"
    /\ UNCHANGED << srvVars, walkVars, pwVars, mode, orgs, oi, workspaces, wi,
                    all_workflow_summaries, all_process_metrics, listed,
                    searched, ncalls >>

\* main after its setup (lines 354-363), in either scope mode.
Init ==
    /\ wsLeft = MaxWs /\ itemsLeft = MaxItems
    /\ srvN = 0 /\ srvK = 1 /\ srvT = 0
    /\ wpc = "idle" /\ workflows = << >> /\ offset = 0 /\ pages = << >>
    /\ mode \in {"single", "all"}
    /\ workspace_id \in (IF mode = "single" THEN Targets ELSE {None})
    /\ org_name = "Unknown" /\ workspace_name = "Unknown"
    /\ pw_summaries = << >> /\ pw_process = << >> /\ fi = 1
    /\ workflow_details = EmptyDetails
    /\ workflow_metrics_data = MetricsAbsent
    /\ fetched = << "error", "error" >>
    /\ extracted = Raised
    /\ IdleMain /\ pc = "start"
    /\ logged = << >> /\ ncalls = 0

Next ==
    \/ Organizations
    \/ LookupOrg
    \/ LookupEnd
    \/ AllOrg
    \/ AllWorkspace
    \/ CallProcessWorkspace
    \/ WorkflowsPage
    \/ SearchDone
    \/ ProcessWorkflow
    \/ ReturnWorkspace
    \/ Output

Spec == Init /\ [][Next]_vars


(* ---------------------------- APIClient.workflows: claims -------------- *)
\* The items of the pages received, in the order received.
RECURSIVE Received(_)
Received(ps) ==
    IF ps = << >> THEN << >>
    ELSE Received(SubSeq(ps, 1, Len(ps) - 1)) \o
         PageItems(ps[Len(ps)].offset, ps[Len(ps)].n)

\* A full page at offset o of a server holding srvN items.
FullPage(o) == Min(srvK, Max(0, srvN - o))

\* The server of claim C1: it reports totalSize = N and answers every
\* request at offset o with the items o .. min(o+k, N)-1.
HonestServer ==
    /\ srvT = srvN
    /\ \A i \in DOMAIN pages :
          pages[i].kind = "data" /\ pages[i].n = FullPage(pages[i].offset)

OffsetsDistinct ==
    \A i, j \in DOMAIN pages : i # j => pages[i].offset # pages[j].offset

\* C1: against a server that always reports totalSize = N and serves full
\* pages of size k, the walk returns exactly the N items, each once and in
\* server order, and requests no offset twice.
C1_ExactlyN ==
    HonestServer =>
       /\ OffsetsDistinct
       /\ (wpc = "done" => workflows = [i \in 1..srvN |-> i - 1])

\* C1 witness: a finished walk over several pages that ends exactly on the
\* total-count boundary.
C1_Witness ==
    /\ HonestServer /\ wpc = "done"
    /\ srvN = 4 /\ srvK = 2 /\ Len(pages) = 2

\* Page i was short: fewer items than the page size, total not reached.
ShortPage(i) ==
    /\ pages[i].kind = "data"
    /\ pages[i].n < srvK
    /\ pages[i].before + pages[i].n < srvT

\* C2 as stated: after a page that returns fewer items than requested
\* while the total is not reached, at most one further request is made.
C2_OneFurtherRequest ==
    \A i \in DOMAIN pages : ShortPage(i) => Len(pages) <= i + 1

\* The server sends a short page only when its items are exhausted.
FullUntilExhausted ==
    \A i \in DOMAIN pages :
       pages[i].kind = "data" => pages[i].n = FullPage(pages[i].offset)

\* C2 as amended: a page with zero items ends the walk with no further
\* request; a short page that is not empty does not end it; the walk makes
\* at most max(1, totalSize) requests whatever the server sends; and
\* against a server that serves full pages until its items are exhausted a
\* short page is followed by at most one further request.
C2_ZeroItemsGuard ==
    /\ \A i \in DOMAIN pages :
          (pages[i].kind = "data" /\ pages[i].n = 0)
             => (i = Len(pages) /\ wpc = "done")
    /\ \A i \in DOMAIN pages :
          (ShortPage(i) /\ pages[i].n > 0 /\ i = Len(pages)) => wpc = "loop"
    /\ Len(pages) <= Max(1, srvT)
    /\ FullUntilExhausted => C2_OneFurtherRequest

\* C2 witness: a short page below the total, then a page with no items,
\* which ends the walk below the reported total.
C2_Witness ==
    /\ wpc = "done" /\ Len(pages) >= 2
    /\ ShortPage(Len(pages) - 1) /\ pages[Len(pages) - 1].n > 0
    /\ pages[Len(pages)].kind = "data" /\ pages[Len(pages)].n = 0
    /\ Len(workflows) < srvT

\* C10: a request that returns an empty object is the last one of the
\* walk, the walk returns exactly the items of the pages received before
\* it, in order, and every request sends as its offset the number of items
\* accumulated so far.
C10_FailedPage ==
    /\ \A i \in DOMAIN pages : pages[i].offset = pages[i].before
    /\ \A i \in DOMAIN pages :
          IsEmptyResp(pages[i].kind)
             => /\ i = Len(pages)
                /\ wpc = "done"
                /\ workflows = Received(SubSeq(pages, 1, i - 1))
                /\ (i = 1 => workflows = << >>)

\* C10 witness: a later page fails after items were accumulated.
C10_Witness ==
    /\ wpc = "done" /\ Len(pages) = 3
    /\ pages[3].kind = "error"
    /\ Len(workflows) = 3

(* ---------------------------- extract_io_metrics: claims --------------- *)
RECURSIVE SumReads(_)
SumReads(recs) ==
    IF recs = << >> THEN 0
    ELSE SumReads(SubSeq(recs, 1, Len(recs) - 1)) + recs[Len(recs)].read_bytes
RECURSIVE SumWrites(_)
SumWrites(recs) ==
    IF recs = << >> THEN 0
    ELSE SumWrites(SubSeq(recs, 1, Len(recs) - 1)) + recs[Len(recs)].write_bytes

\* C3: whenever extract_io_metrics returns, the summary's read and write
\* totals are the sums over the returned process records, total_io_bytes
\* is their sum, there is one record per entry, and every record has
\* total_bytes = read_bytes + write_bytes.
C3_Totals ==
    (pc = "extracted" /\ ~extracted.err) =>
       /\ Len(extracted.process) = Len(workflow_metrics_data.list)
       /\ extracted.summary.total_read_bytes = SumReads(extracted.process)
       /\ extracted.summary.total_write_bytes = SumWrites(extracted.process)
       /\ extracted.summary.total_io_bytes =
             extracted.summary.total_read_bytes
                + extracted.summary.total_write_bytes
       /\ \A i \in DOMAIN extracted.process :
             extracted.process[i].total_bytes =
                extracted.process[i].read_bytes + extracted.process[i].write_bytes

\* C3 witness: a returned summary over two entries, one with a null reads
\* object and one with an absent writes object, with non-zero totals.
C3_Witness ==
    /\ pc = "extracted" /\ ~extracted.err
    /\ Len(workflow_metrics_data.list) = 2
    /\ workflow_metrics_data.list[1].reads.k = "null"
    /\ workflow_metrics_data.list[2].writes.k = "absent"
    /\ extracted.summary.total_read_bytes > 0
    /\ extracted.summary.total_write_bytes > 0

\* C7: extract_io_metrics never ends in an error, whatever optional fields
\* are absent or null.
C7_NeverFails ==
    (pc = "extracted"
       /\ workflow_details.wfk # "null" /\ workflow_metrics_data.k # "null")
       => ~extracted.err

(* ---------------------------- process_workspace and main: claims ------- *)
\* One iteration of the loop over the workflows has just run.
Iteration == pc = "wfloop" /\ ncalls' = ncalls + 2

\* The iteration's detail or metrics response was empty.
ExcludedNow ==
    workflow_details' = EmptyDetails \/ workflow_metrics_data' = MetricsAbsent

TablesUnchanged ==
    UNCHANGED << pw_summaries, pw_process, all_workflow_summaries,
                 all_process_metrics >>

\* The step wrote a record above INFO level.
LoggedAboveInfo ==
    \E i \in DOMAIN logged' : logged'[i].level \in {"ERROR", "WARNING"}

\* C4 as stated: a workflow whose detail or metrics response is empty adds
\* no row to either table, the loop goes on to the next workflow, and the
\* exclusion is logged.
C4_ExclusionLogged ==
    [][ (Iteration /\ ExcludedNow) =>
           /\ TablesUnchanged
           /\ pc' = "wfloop" /\ fi' = fi + 1
           /\ LoggedAboveInfo ]_vars

\* C4 as amended: such a workflow adds no row to either table and the loop
\* goes on to the next workflow; rows are added only when both responses
\* are non-empty; the log holds an error record exactly when one of the two
\* requests failed (written by the client), and nothing beyond the request
\* trace when the empty result was an empty 2xx body.
C4_Exclusion ==
    [][ Iteration =>
           /\ ExcludedNow =>
                 /\ TablesUnchanged
                 /\ pc' = "wfloop" /\ fi' = fi + 1
                 /\ LoggedAboveInfo <=> ("error" \in {fetched'[1], fetched'[2]})
           /\ ~TablesUnchanged =>
                 (fetched' = << "data", "data" >> /\ ~ExcludedNow) ]_vars

\* C4 witness: of two workflows found, the first was excluded for an empty
\* detail response and the second one contributed its row.
C4_Witness ==
    /\ pc = "wfloop" /\ Len(workflows) = 2 /\ fi = 3
    /\ Len(pw_summaries) = 1
    /\ pw_summaries[1].workflow_id = WorkflowId(workspace_id, workflows[2])

\* Single-workspace mode, past the lookup, and no listing the lookup went
\* through holds the workspace id.
NotFound ==
    /\ mode = "single"
    /\ pc \notin {"start", "lookup"}
    /\ \A i \in DOMAIN listed : listed[i].id # workspace_id

AllRows == pw_summaries \o all_workflow_summaries

\* C5 as stated: when the workspace id is in no listing, the run does not
\* crash and every summary row has both names equal to "Unknown". The
\* runs in which extract_io_metrics raises (C7) are left aside, so that
\* the statement is checked for what the lookup and the names do.
C5_NamesUnknown ==
    (NotFound /\ ~(pc = "crashed" /\ extracted.err)) =>
       /\ pc # "crashed"
       /\ \A i \in DOMAIN AllRows :
             /\ AllRows[i].organization_name = "Unknown"
             /\ AllRows[i].workspace_name = "Unknown"

\* C5 as amended: when the workspace id is in no listing, the lookup ends
\* without an error and hands "Unknown" for both names to
\* process_workspace; every summary row carries the name embedded in the
\* workflow's detail response where it has one and "Unknown" where it has
\* none; the run ends in an error only where extract_io_metrics raises.
C5_NamesFallback ==
    NotFound =>
       /\ org_name = "Unknown" /\ workspace_name = "Unknown"
       /\ \A i \in DOMAIN AllRows :
             /\ AllRows[i].organization_name \in {"Unknown", "orgE"}
             /\ AllRows[i].workspace_name \in {"Unknown", "wsE"}
       /\ (pc = "wfloop" /\ fetched = << "data", "data" >> /\ ~extracted.err) =>
             /\ pw_summaries # << >>
             /\ pw_summaries[Len(pw_summaries)] = extracted.summary
             /\ extracted.summary.organization_name =
                   (IF workflow_details.orgName.k = "absent"
                      THEN "Unknown" ELSE workflow_details.orgName.v)
             /\ extracted.summary.workspace_name =
                   (IF workflow_details.workspaceName.k = "absent"
                      THEN "Unknown" ELSE workflow_details.workspaceName.v)
       /\ pc = "crashed" => (fetched = << "data", "data" >> /\ extracted.err)

\* C5 witness: a finished run for an id found in no listing, with a row
\* that fell back to "Unknown" and a row that took the embedded names.
C5_Witness ==
    /\ NotFound /\ pc = "done" /\ listed # << >>
    /\ \E i \in DOMAIN all_workflow_summaries :
          all_workflow_summaries[i].organization_name = "Unknown"
    /\ \E i \in DOMAIN all_workflow_summaries :
          all_workflow_summaries[i].organization_name = "orgE"

NoDuplicates(seq) == \A i, j \in DOMAIN seq : i # j => seq[i] # seq[j]

\* C6: nothing is written or echoed before the last request of the run;
\* each file is written at most once, by the step that ends the run; with
\* an empty summary list no file is written and "No workflow data
\* collected" is emitted instead.
C6_OutputAtEnd ==
    /\ [](/\ (writes # << >> \/ echoed # << >>) => pc = "done"
          /\ NoDuplicates(writes)
          /\ pc = "done" =>
                /\ wpc = "idle"
                /\ mode = "all" => oi > Len(orgs)
                /\ IF all_workflow_summaries = << >>
                     THEN /\ writes = << >>
                          /\ echoed = << "No workflow data collected" >>
                          /\ \E i \in DOMAIN logged :
                                /\ logged[i].level = "WARNING"
                                /\ logged[i].msg = "No workflow data collected"
                     ELSE /\ writes[1] = "summary"
                          /\ (all_process_metrics # << >>)
                                <=> (writes = << "summary", "process" >>)
                          /\ echoed = << "IO Metrics Summary" >>)
    /\ [][ /\ writes' # writes => (writes = << >> /\ pc = "output" /\ pc' = "done")
           /\ (writes # << >> \/ echoed # << >>) => ncalls' = ncalls ]_vars

\* C6 witness: a finished run in which workflows were found and all of
\* them excluded, so that no file was written.
C6_Witness ==
    /\ pc = "done" /\ writes = << >> /\ searched # << >>
    /\ ncalls >= 5
    /\ echoed = << "No workflow data collected" >>

\* a comes before b, for two workspace ids or two workflow ids (listing
\* position of the organization, then of the workspace, then of the item).
RECURSIVE Before(_, _)
Before(a, b) ==
    IF a = << >> \/ b = << >> THEN FALSE
    ELSE IF Head(a) # Head(b) THEN Head(a) < Head(b)
    ELSE Before(Tail(a), Tail(b))

Ascending(ids) == \A i, j \in DOMAIN ids : i < j => Before(ids[i], ids[j])
NonDescending(ids) == \A i, j \in DOMAIN ids : i < j => ~Before(ids[j], ids[i])

\* The ids of the entries of a listing that have one, in listing order.
IdsOf(ws) ==
    LET withId == SelectSeq(ws, LAMBDA w : w.id # None)
    IN [i \in DOMAIN withId |-> withId[i].id]

\* The workspaces of organization o searched so far.
SearchedOf(o) == SelectSeq(searched, LAMBDA id : id[1] = o)

\* C8: in all-workspaces mode the workspaces are searched in listing
\* order, a workspace without an id is not searched and does not stop the
\* traversal, each workspace's result is appended whole at the end of the
\* two global lists, and within a workspace each extraction is appended at
\* the end of its two lists, so that the rows stand in the order of the
\* visits and, within a workspace, of the workflows.
C8_Accumulation ==
    /\ [](mode = "all" =>
            /\ Ascending(searched)
            /\ \A i \in DOMAIN searched : searched[i] # None
            /\ pc = "wsloop" =>
                  SearchedOf(oi) = IdsOf(SubSeq(workspaces, 1, wi - 1))
            /\ pc \in {"output", "done"} => oi > Len(orgs)
            /\ Ascending([i \in DOMAIN all_workflow_summaries |->
                             all_workflow_summaries[i].workflow_id])
            /\ NonDescending([i \in DOMAIN all_process_metrics |->
                                all_process_metrics[i].workflow_id])
            /\ \A i \in DOMAIN all_workflow_summaries :
                  \E k \in DOMAIN searched :
                     searched[k] = SubSeq(all_workflow_summaries[i].workflow_id, 1, 2))
    /\ [][ mode = "all" =>
            /\ all_workflow_summaries' # all_workflow_summaries =>
                  all_workflow_summaries' = all_workflow_summaries \o pw_summaries
            /\ all_process_metrics' # all_process_metrics =>
                  all_process_metrics' = all_process_metrics \o pw_process
            /\ (pc = "wfloop" /\ pc' = "wsloop") =>
                  /\ all_workflow_summaries' = all_workflow_summaries \o pw_summaries
                  /\ all_process_metrics' = all_process_metrics \o pw_process
            /\ (pw_summaries' # pw_summaries /\ pw_summaries' # << >>) =>
                  /\ pw_summaries' = Append(pw_summaries, extracted'.summary)
                  /\ pw_process' = pw_process \o extracted'.process ]_vars

\* C8 witness: a finished traversal that searched two workspaces, each of
\* which contributed a row, the second with a process record.
C8_Witness ==
    /\ mode = "all" /\ pc = "done"
    /\ Len(searched) = 2
    /\ Len(all_workflow_summaries) = 2
    /\ SubSeq(all_workflow_summaries[1].workflow_id, 1, 2) = searched[1]
    /\ SubSeq(all_workflow_summaries[2].workflow_id, 1, 2) = searched[2]
    /\ all_process_metrics # << >>

\* Every record of procs has the workflow id of some record of sums.
Referenced(procs, sums) ==
    \A i \in DOMAIN procs :
       \E j \in DOMAIN sums : sums[j].workflow_id = procs[i].workflow_id

\* C9: in every state of a run every process record has the workflow id of
\* a summary record of the same table pair, in process_workspace's lists
\* and in main's.
C9_Referential ==
    /\ Referenced(pw_process, pw_summaries)
    /\ Referenced(all_process_metrics, all_workflow_summaries)

\* C9 witness: a finished run whose process table holds records of two
\* workflows.
C9_Witness ==
    /\ pc = "done"
    /\ Len(all_process_metrics) = 2
    /\ all_process_metrics[1].workflow_id # all_process_metrics[2].workflow_id

====
